---- MODULE Spec2Model ----
(***************************************************************************)
(* Model of the Orca server: the entry file (listener on 127.0.0.1:8080,   *)
(* src/unnamed/part_000) and app/parser.js (RunCommand plus the listener   *)
(* on 127.0.0.1:6379 that loading the module starts).                      *)
(*                                                                         *)
(* A chunk on the wire is a sequence of byte values.  A JavaScript string  *)
(* is a sequence of one-character strings, so that toString(), trim() and  *)
(* toUpperCase() are computed character by character as the engine does.   *)
(* One step of the model is one callback of the event loop: a connection   *)
(* being accepted, one chunk of a socket being handed to the callback of   *)
(* connection.forEach (Readable.prototype.forEach, which runs the callback *)
(* on the chunks one at a time, in arrival order), or the peer ending a    *)
(* connection.  Callbacks run to completion, so they are atomic.           *)
(***************************************************************************)
EXTENDS Integers, Sequences, FiniteSets, TLC

\* ---------------------------------------------------------------- bounds
NumConns == 2
MaxCmds == 3

Conns == 1..NumConns

\* ------------------------------------------------------ program constants
MainPort == 8080
ParserPort == 6379
Listeners == {MainPort, ParserPort}

CR == "\r"
LF == "\n"
CRLF == <<CR, LF>>

\* ------------------------------------------------- bytes and characters
\* The characters of the byte values 32..95 and 97..126, in order (a TLA+
\* string cannot hold the character of byte 96, nor most control
\* characters, so chunks are made of the bytes in Bytes).
PrintableLow ==
  <<
    " ", "!", "\"", "#", "$", "%", "&", "'", "(", ")", "*", "+",
    ",", "-", ".", "/", "0", "1", "2", "3", "4", "5", "6", "7",
    "8", "9", ":", ";", "<", "=", ">", "?", "@", "A", "B", "C",
    "D", "E", "F", "G", "H", "I", "J", "K", "L", "M", "N", "O",
    "P", "Q", "R", "S", "T", "U", "V", "W", "X", "Y", "Z", "[",
    "\\", "]", "^", "_"
  >>
PrintableHigh ==
  <<
    "a", "b", "c", "d", "e", "f", "g", "h", "i", "j", "k", "l",
    "m", "n", "o", "p", "q", "r", "s", "t", "u", "v", "w", "x",
    "y", "z", "{", "|", "}", "~"
  >>

Bytes == {9, 10, 12, 13} \cup (32..95) \cup (97..126)

\* the character a single byte below 128 decodes to
CharOfByte ==
  [b \in Bytes |->
     IF b >= 32 /\ b <= 95 THEN PrintableLow[b - 31]
     ELSE IF b >= 97 THEN PrintableHigh[b - 96]
     ELSE IF b = 9 THEN "\t"
     ELSE IF b = 10 THEN LF
     ELSE IF b = 12 THEN "\f"
     ELSE CR]

Chars == { CharOfByte[b] : b \in Bytes }
ByteOfChar == [ch \in Chars |-> CHOOSE b \in Bytes : CharOfByte[b] = ch]

\* Buffer.prototype.toString(): utf8 decoding of an ASCII chunk
toString(data) == [i \in 1..Len(data) |-> CharOfByte[data[i]]]

\* the bytes connection.write(string) puts on the wire for an ASCII string
utf8(str) == [i \in 1..Len(str) |-> ByteOfChar[str[i]]]

\* ----------------------------------------------------- string primitives
LowerCaseLetters ==
  <<"a","b","c","d","e","f","g","h","i","j","k","l","m",
    "n","o","p","q","r","s","t","u","v","w","x","y","z">>
UpperCaseLetters ==
  <<"A","B","C","D","E","F","G","H","I","J","K","L","M",
    "N","O","P","Q","R","S","T","U","V","W","X","Y","Z">>

\* String.prototype.toUpperCase on one ASCII character
UpperChar(ch) ==
  IF \E i \in 1..26 : LowerCaseLetters[i] = ch
  THEN UpperCaseLetters[CHOOSE i \in 1..26 : LowerCaseLetters[i] = ch]
  ELSE ch

toUpperCase(s) == [i \in 1..Len(s) |-> UpperChar(s[i])]

\* the ASCII characters String.prototype.trim strips
WhiteSpace == {" ", "\t", LF, CR, "\f"}

RECURSIVE trimStart(_)
trimStart(s) ==
  IF s # <<>> /\ Head(s) \in WhiteSpace THEN trimStart(Tail(s)) ELSE s

RECURSIVE trimEnd(_)
trimEnd(s) ==
  IF s # <<>> /\ s[Len(s)] \in WhiteSpace
  THEN trimEnd(SubSeq(s, 1, Len(s) - 1)) ELSE s

\* the string left as it is
trimNothing(s) == s
\* String.prototype.trim
trim(s) == trimEnd(trimStart(s))

\* ------------------------------------------------------------ RunCommand
PING == <<"P","I","N","G">>
PONG == <<"+","P","O","N","G">> \o CRLF
UnknownCommand ==
  <<"U","n","k","n","o","w","n"," ","c","o","m","m","a","n","d",":"," ">>

RunCommand(command) ==
  IF toUpperCase(trim(command)) = PING
  THEN PONG
  ELSE UnknownCommand \o command

\* ------------------------------------------------------- client requests
\* What a client puts on the wire, as byte values.  An encoded request is
\* an array of bulk strings (spec 4.1): *<n>\r\n then $<len>\r\n<arg>\r\n
\* for each argument.
CRLFBytes == <<13, 10>>
Dec(n) == <<48 + n>>

RECURSIVE Concat(_)
Concat(ss) == IF ss = <<>> THEN <<>> ELSE Head(ss) \o Concat(Tail(ss))

Bulk(s) == <<36>> \o Dec(Len(s)) \o CRLFBytes \o s \o CRLFBytes
Request(args) ==
  <<42>> \o Dec(Len(args)) \o CRLFBytes
    \o Concat([i \in 1..Len(args) |-> Bulk(args[i])])

\* SET k v
SetKV == Request(<< <<83, 69, 84>>, <<107>>, <<118>> >>)
\* GET k
GetK == Request(<< <<71, 69, 84>>, <<107>> >>)
\* BEGIN
Begin == Request(<< <<66, 69, 71, 73, 78>> >>)
\* SUBSCRIBE n
SubscribeN == Request(<< <<83, 85, 66, 83, 67, 82, 73, 66, 69>>, <<110>> >>)
\* PUBLISH n m
PublishNM == Request(<< <<80, 85, 66, 76, 73, 83, 72>>, <<110>>, <<109>> >>)

\* "PING"
Ping == <<80, 73, 78, 71>>
\* " pInG\r\n"
PingPadded == <<32, 112, 73, 110, 71, 13, 10>>
\* "PI" and "NG": PING split over two reads
PingHead == <<80, 73>>
PingTail == <<78, 71>>
\* "FOO\r\n"
Foo == <<70, 79, 79, 13, 10>>

\* the chunks one read of a socket may deliver: inline text ...
Data == { Ping, PingPadded, PingHead, PingTail, Foo }
\* ... or encoded requests
Requests == { SetKV, GetK, Begin, SubscribeN, PublishNM }

\* ----------------------------------------------------------------- state
VARIABLES
  state,    \* state[c]: "free" (not yet accepted), "open" or "closed"
  port,     \* port[c]: the listener that accepted c, 0 while free
  out,      \* out[c]: the replies written to socket c, in write order
  handled   \* the 'data' callbacks run so far, in the order they ran

vars == <<state, port, out, handled>>

Init ==
  /\ state = [c \in Conns |-> "free"]
  /\ port = [c \in Conns |-> 0]
  /\ out = [c \in Conns |-> <<>>]
  /\ handled = <<>>

\* 'connection' event of the listener on port p
Accept(c, p) ==
  /\ state[c] = "free"
  /\ \A b \in Conns : b < c => state[b] # "free"
  /\ state' = [state EXCEPT ![c] = "open"]
  /\ port' = [port EXCEPT ![c] = p]
  /\ UNCHANGED <<out, handled>>

\* one socket shared by every callback
SocketShared(c) == 1
\* the socket the callback of connection c writes to: its own closure
\* variable `connection`
Socket(c) == c

\* chunk put ahead of what was written before
writeFirst(written, chunk) == <<chunk>> \o written
\* connection.write(chunk): chunk is queued behind what was written before
write(written, chunk) == Append(written, chunk)

\* forEach callback of the listener on 8080: log, then answer
MainOnData(c, data) ==
  /\ state[c] = "open"
  /\ port[c] = MainPort
  /\ Len(handled) < MaxCmds
  /\ LET reply == utf8(RunCommand(toString(data)))
     IN /\ out' = [out EXCEPT ![Socket(c)] = write(@, reply)]
        /\ handled' = Append(handled,
             [conn |-> c, port |-> MainPort, data |-> data, replies |-> <<reply>>])
  /\ UNCHANGED <<state, port>>

\* forEach callback of the listener on 6379: log only
ParserOnData(c, data) ==
  /\ state[c] = "open"
  /\ port[c] = ParserPort
  /\ Len(handled) < MaxCmds
  /\ handled' = Append(handled,
       [conn |-> c, port |-> ParserPort, data |-> data, replies |-> <<>>])
  /\ UNCHANGED <<state, port, out>>

\* the peer ends the connection; the stream ends and forEach resolves
Close(c) ==
  /\ state[c] = "open"
  /\ state' = [state EXCEPT ![c] = "closed"]
  /\ UNCHANGED <<port, out, handled>>

Next ==
  \/ \E c \in Conns, p \in Listeners : Accept(c, p)
  \/ \E c \in Conns, data \in Data : MainOnData(c, data)
  \/ \E c \in Conns, data \in Data : ParserOnData(c, data)
  \/ \E c \in Conns : Close(c)

Spec == Init /\ [][Next]_vars

NextRequests ==
  \/ \E c \in Conns, p \in Listeners : Accept(c, p)
  \/ \E c \in Conns, data \in Requests : MainOnData(c, data)
  \/ \E c \in Conns, data \in Requests : ParserOnData(c, data)
  \/ \E c \in Conns : Close(c)

SpecRequests == Init /\ [][NextRequests]_vars

TypeOK ==
  /\ state \in [Conns -> {"free", "open", "closed"}]
  /\ port \in [Conns -> Listeners \cup {0}]
  /\ Len(handled) <= MaxCmds

\* ------------------------------------------------- vocabulary of the claims
Last(s) == s[Len(s)]

\* the chunks connection c's callback was run on, in order
RECURSIVE ReceivedIn(_, _)
ReceivedIn(h, c) ==
  IF h = <<>> THEN <<>>
  ELSE IF Head(h).conn = c THEN <<Head(h).data>> \o ReceivedIn(Tail(h), c)
       ELSE ReceivedIn(Tail(h), c)
Received(c) == ReceivedIn(handled, c)

\* s is the bytes of PING in some letter casing between runs of whitespace
WhiteSpaceBytes == {32, 9, 10, 13, 12}
IsPingForm(s) ==
  \E i \in 1..Len(s) :
    /\ i + 3 <= Len(s)
    /\ \A k \in 1..(i - 1) : s[k] \in WhiteSpaceBytes
    /\ \A k \in (i + 4)..Len(s) : s[k] \in WhiteSpaceBytes
    /\ s[i] \in {80, 112}
    /\ s[i + 1] \in {73, 105}
    /\ s[i + 2] \in {78, 110}
    /\ s[i + 3] \in {71, 103}

\* "+PONG\r\n"
PongReply == <<43, 80, 79, 78, 71, 13, 10>>
\* "Unknown command: "
UnknownPrefix == <<85, 110, 107, 110, 111, 119, 110, 32, 99, 111, 109, 109, 97, 110, 100, 58, 32>>

\* reply is what the code answers the command cmd with
Answers(cmd, reply) ==
  IF IsPingForm(cmd) THEN reply = PongReply ELSE reply = UnknownPrefix \o cmd

\* + - : $ *
TypeTags == {43, 45, 58, 36, 42}
WellFormedReply(r) ==
  /\ Len(r) >= 3
  /\ r[1] \in TypeTags
  /\ SubSeq(r, Len(r) - 1, Len(r)) = CRLFBytes
ErrorReply(r) == WellFormedReply(r) /\ r[1] = 45

\* ":<n>\r\n", "$-1\r\n", "+QUEUED\r\n"
Integer(n) == <<58>> \o Dec(n) \o CRLFBytes
NullBulk == <<36, 45, 49, 13, 10>>
Queued == <<43, 81, 85, 69, 85, 69, 68, 13, 10>>

\* a 'data' callback of connection c ran in this step
Handles(c) ==
  /\ Len(handled') = Len(handled) + 1
  /\ Last(handled').conn = c

\* ------------------------------------------------------------------ C1
\* C1: every command that is PING in any letter casing, with any leading
\* or trailing whitespace or CRLF, is answered by RunCommand with exactly
\* +PONG\r\n, whatever was processed before it and whichever connection it
\* arrived on.
C1_PingAnsweredPong ==
  \A i \in 1..Len(handled) :
    (handled[i].port = MainPort /\ IsPingForm(handled[i].data))
      => handled[i].replies = <<PongReply>>

C1_Witness ==
  /\ Len(handled) >= 3
  /\ handled[1].conn = 1 /\ handled[1].data = Foo
  /\ handled[2].conn = 1 /\ handled[2].data = Ping
  /\ handled[3].conn = 2 /\ handled[3].data = PingPadded
  /\ handled[3].replies = <<PongReply>>

\* ------------------------------------------------------------------ C2
\* C2: every reply written to a connection starts with one of the type
\* tags + - : $ * and ends with CRLF; an unknown command gets an error
\* reply (leading '-') and its connection stays open.
C2_RepliesWellFormed ==
  \A i \in 1..Len(handled) :
    /\ \A k \in 1..Len(handled[i].replies) : WellFormedReply(handled[i].replies[k])
    /\ (handled[i].port = MainPort /\ ~IsPingForm(handled[i].data))
         => /\ Len(handled[i].replies) = 1
            /\ ErrorReply(handled[i].replies[1])

\* ------------------------------------------------------------------ C3
\* C3: a GET k handled after a SET k v, on any connection, is answered
\* with v (a bulk string), and a GET k of a key never written is answered
\* with the null bulk string, not with an error.
C3_GetRepliesValue ==
  \A j \in 1..Len(handled) :
    (handled[j].port = MainPort /\ handled[j].data = GetK)
      => IF \E i \in 1..(j - 1) : handled[i].port = MainPort /\ handled[i].data = SetKV
         THEN handled[j].replies = <<Bulk(<<118>>)>>
         ELSE handled[j].replies = <<NullBulk>>

\* ------------------------------------------------------------------ C4
\* C4: the replies written on a connection depend only on the concatenated
\* bytes it received, not on how the bytes were split into reads.
C4_SplitIndependent ==
  \A c1, c2 \in Conns :
    (/\ port[c1] = MainPort /\ port[c2] = MainPort
     /\ Concat(Received(c1)) = Concat(Received(c2)))
      => out[c1] = out[c2]

C6_QueuedAfterBegin ==
  \A j \in 1..Len(handled) :
    (/\ handled[j].port = MainPort
     /\ handled[j].data = SetKV
     /\ \E i \in 1..(j - 1) :
          handled[i].conn = handled[j].conn /\ handled[i].data = Begin)
      => handled[j].replies = <<Queued>>

\* ------------------------------------------------------------------ C8
\* C8: PUBLISH n m delivers one message to each connection that is
\* subscribed to n and open at the moment of the call, to no other
\* connection, and replies with the number of those connections.
Subscribers ==
  { c \in Conns :
      /\ state[c] = "open"
      /\ port[c] = MainPort
      /\ \E i \in 1..Len(handled) :
           handled[i].conn = c /\ handled[i].data = SubscribeN }

C8_PublishDelivers ==
  [][\A c \in Conns :
       (Handles(c) /\ Last(handled').port = MainPort
          /\ Last(handled').data = PublishNM)
         => /\ Last(handled').replies = <<Integer(Cardinality(Subscribers))>>
            /\ \A s \in Subscribers \ {c} : Len(out'[s]) = Len(out[s]) + 1
            /\ \A s \in Conns \ (Subscribers \cup {c}) : out'[s] = out[s]]_vars

\* ------------------------------------------------------------------ C9
\* C9: handling a read of one connection, an unknown command included,
\* writes its reply to that connection only, writes to no other connection,
\* closes no connection, and leaves every open connection able to be
\* handled afterwards.
C9_ConnectionsIsolated ==
  [][\A c \in Conns :
       Handles(c)
         => /\ out'[c] = out[c] \o Last(handled').replies
            /\ \A d \in Conns \ {c} : out'[d] = out[d]
            /\ state' = state
            /\ port' = port]_vars

C9_Witness ==
  /\ Len(handled) = 3
  /\ handled[1].conn = 1 /\ handled[1].data = Foo /\ handled[1].port = MainPort
  /\ handled[2].conn = 2 /\ handled[2].data = Ping /\ handled[2].port = MainPort
  /\ handled[3].conn = 1 /\ handled[3].data = PingPadded
  /\ out[1] = <<UnknownPrefix \o Foo, PongReply>>
  /\ out[2] = <<PongReply>>
  /\ state[1] = "open" /\ state[2] = "open"

\* ----------------------------------------------------------------- C10
\* C10: every read of every accepted connection, on whichever listener it
\* was accepted, is answered.
C10_EveryReadAnswered ==
  \A i \in 1..Len(handled) : handled[i].replies # <<>>
====
